---- MODULE Spec2Model ----
(***************************************************************************)
(* Conference Games backend: the ConfigMap content loader                  *)
(* (services/configMapLoader.ts), the ContentService that wires its events *)
(* to the HTTP response cache (services/contentService.ts), and the        *)
(* response-cache middleware (middleware/caching.ts).                      *)
(*                                                                         *)
(* Time is discrete.  One tick is 500 ms, so the 1000 ms debounce of       *)
(* handleFileChange is DebounceDelay = 2 ticks.  Node runs due timers in   *)
(* the timers phase before it polls for I/O, so a due timer fires before   *)
(* anything else happens at that instant (TimerDue blocks other actions).  *)
(*                                                                         *)
(* An async function is cut at its awaits: the synchronous prefix is one   *)
(* action, each file read resolves in its own step (ReadFile), and the     *)
(* rest of loadContent together with the continuation of whoever awaits    *)
(* it is LoadFinish.                                                       *)
(***************************************************************************)
EXTENDS Integers, FiniteSets, Sequences, TLC

\* ---- bounds of the model ------------------------------------------------
MaxTime == 4
MaxVersion == 2
MaxWrites == 1
MaxLoads == 2
MaxEvents == 2

\* ---- program constants (in ticks of 500 ms) -----------------------------
DebounceDelay == 2
CacheTimeout == 3
ResponseTtl == CacheTimeout

\* ---- outcomes of reading one content file -------------------------------
\* fs.readFile rejects with ENOENT; JSON.parse throws; the JSON parses but
\* is not an array of valid items; or the file holds valid content version v.
ENOENT == 0
BadJson == 0 - 1
BadSchema == 0 - 2
Idle == 0 - 8
Pending == 0 - 9
Versions == 1..MaxVersion
FileVals == {ENOENT, BadJson, BadSchema} \cup Versions
Files == {"sentences", "acronyms"}
Keys == {"acronyms"}

\* ---- content objects ----------------------------------------------------
\* obj is the identity of the JavaScript object (each successful load makes
\* a new one); s and a are the versions of the two arrays it holds.
NullContent == [kind |-> "null", obj |-> 0, s |-> 0, a |-> 0]
defaultFallbackContent == [kind |-> "fallback", obj |-> 0, s |-> 0, a |-> 0]

VARIABLES
  sentencesFile, acronymsFile, writes,       \* the two files on disk
  now,                                       \* Date.now(), in ticks
  fallbackContent, watchForChanges,          \* ConfigMapLoaderOptions
  cachedContent, lastLoadTime, isLoading,    \* ConfigMapLoader fields
  watchers, initState,
  reads, owner, loadSeq, fileReads,          \* the loadContent in flight
  timers, timeout, events,                   \* handleFileChange closure
  cleanedUp,                                 \* history: cleanup()
  mwCache, globalCache, lastResp,            \* middleware/caching.ts
  ret, reloadBetween,                        \* history: getContent results
  lastEvent, burstStart, burstEvents,        \* history: change bursts
  burstReloads, lastFireTime,
  since, lastReload, lastGood,               \* history: reloads
  cachedItems, storedHistory,                \* browser localStorage
  game, state, historyRef, current,          \* game component and its hook
  selectedCategory, fetches,
  shownOrder, lastPick, lastDisplayed,       \* history: items shown
  before, lastPrev,
  timerProps, timerState, intervalRef,       \* Timer component
  hidden, lastOp, timerHist,
  error, lastFetch, fetchEnd,                \* hook: fetch outcome
  contentJson, contentItems, page,           \* content items and queries
  databaseUrl, db, dbUp, appConfig,          \* DatabaseService, PostgreSQL
  runtimeConfig, configured, reply           \* ConfigurationService

fileVars == <<sentencesFile, acronymsFile, writes>>
optVars == <<fallbackContent, watchForChanges>>
cacheVars == <<cachedContent, lastLoadTime>>
loadVars == <<isLoading, reads, owner, loadSeq, fileReads>>
watchVars == <<watchers, timers, timeout, events>>
httpVars == <<mwCache, globalCache, lastResp>>
retVars == <<ret, reloadBetween>>
burstVars == <<lastEvent, burstStart, burstEvents, burstReloads,
              lastFireTime>>
reloadVars == <<since, lastReload, lastGood>>
storageVars == <<cachedItems, storedHistory>>
hookVars == <<game, state, historyRef, current, selectedCategory, fetches>>
shownVars == <<shownOrder, lastPick, lastDisplayed, before, lastPrev>>
timerVars == <<timerProps, timerState, intervalRef, hidden, lastOp,
               timerHist>>
queryVars == <<contentJson, contentItems, page>>
dbVars == <<databaseUrl, db, dbUp, appConfig, runtimeConfig, configured,
            reply>>
fetchVars == <<error, lastFetch, fetchEnd>>
frontVars == <<storageVars, hookVars, shownVars, timerVars, fetchVars>>
extVars == <<frontVars, queryVars, dbVars>>
loaderVars == <<fileVars, now, optVars, cacheVars, loadVars, watchVars,
                cleanedUp,
                initState, httpVars, retVars, burstVars, reloadVars>>
backVars == <<loaderVars, queryVars, dbVars>>
vars == <<fileVars, now, optVars, cacheVars, loadVars, watchVars, initState,
          httpVars, retVars, burstVars, reloadVars, cleanedUp, extVars>>

\* ---- helpers --------------------------------------------------------------
FileOf(f) == IF f = "sentences" THEN sentencesFile ELSE acronymsFile

FilesValid == sentencesFile \in Versions /\ acronymsFile \in Versions

TimerDue == \E d \in timers : d <= now

NoCall == [state |-> "none", expired |-> NullContent, reads |-> 0,
           valid |-> FALSE,
           writes |-> 0, afterInit |-> FALSE, afterSuccess |-> FALSE,
           badjson |-> FALSE]

\* History: cleanup() has not been called.
NoCleanup == [done |-> FALSE, at |-> 0, loads |-> 0, pending |-> FALSE]

NoOwner == [kind |-> "none", call |-> NoCall, key |-> "none", t0 |-> 0]

NoRet == [kind |-> "none", content |-> NullContent, state |-> "none",
          isExpired |-> FALSE, readsDuring |-> 0, validDuring |-> FALSE,
          afterInit |-> FALSE, afterSuccess |-> FALSE, invalidJson |-> FALSE,
          isLastGood |-> FALSE, streak |-> 0]

NoReload == [state |-> "none", before |-> NullContent, after |-> NullContent,
             ownLoad |-> FALSE, failed |-> FALSE, overlapped |-> FALSE]

NoEntry == [present |-> FALSE, data |-> NullContent, timestamp |-> 0,
            outdated |-> FALSE]

NoResp == [status |-> 0, xcache |-> "none", data |-> NullContent,
           outdated |-> FALSE]

\* What a getContent caller observes when it enters (history only).
CallInfo ==
  [state |-> IF cachedContent = NullContent THEN "empty"
             ELSE IF now - lastLoadTime < CacheTimeout THEN "fresh"
             ELSE "stale",
   expired |-> cachedContent,
   reads |-> fileReads,
   valid |-> FilesValid,
   writes |-> writes,
   afterInit |-> initState = "resolved",
   afterSuccess |-> lastGood # NullContent,
   badjson |-> sentencesFile = BadJson \/ acronymsFile = BadJson]

\* The record of a getContent call that returns (kind "value") or throws:
\* what it returned, how many file reads were issued during the call,
\* whether the files were valid and untouched throughout, whether the object
\* returned is the one that had expired at the call or the last one loaded,
\* and how many calls in a row found the cache fresh with no reloadContent
\* in between.
Returned(kind, content, call, readsNow, good) ==
  [kind |-> kind, content |-> content, state |-> call.state,
   isExpired |-> kind = "value" /\ content = call.expired,
   readsDuring |-> readsNow - call.reads,
   validDuring |-> call.valid /\ FilesValid /\ call.writes = writes,
   afterInit |-> call.afterInit, afterSuccess |-> call.afterSuccess,
   invalidJson |-> call.badjson /\ call.writes = writes,
   isLastGood |-> kind = "value" /\ content = good,
   streak |-> IF call.state # "fresh" THEN 0
              ELSE IF ret.state = "fresh" /\ ~reloadBetween /\ ret.streak >= 1
              THEN 2 ELSE 1]

\* ---- frontend: content items, history, timer state ----------------------
\* DEFAULT_OPTIONS.maxHistorySize is 20; the model keeps a window of 2 and
\* content of up to one item more than the window, so that pools smaller
\* than, equal to and larger than the window all occur.
maxHistorySize == 2
MaxItems == maxHistorySize + 1
MaxFetches == 2
MaxDuration == 3

Types == {"sentences", "acronyms"}
Games == {"finish-sentence", "guess-acronym"}
TypeOf(g) == IF g = "finish-sentence" THEN "sentences" ELSE "acronyms"

\* Content is the items 1..n in file order; the first maxHistorySize
\* sentences are in one category, the rest in another.
CategoryOf(id) == IF id <= maxHistorySize THEN "Kubernetes" ELSE "DevOps"
Categories == {"Kubernetes", "DevOps"}

\* TIMER_DURATION of the two games (30 s and 10 s), in units of 10 s.
TIMER_DURATION(g) == IF g = "finish-sentence" THEN 2 ELSE 1

NoHistory == [sentences |-> <<>>, acronyms |-> <<>>]
NoState == [sentences |-> 0, acronyms |-> 0, isLoading |-> FALSE]
\* history: how the last fetch ended, whether content was on hand then and
\* whether its failure started another fetch.
NoEnd == [failed |-> FALSE, hadCache |-> FALSE, refetched |-> FALSE]
NoPick == [repeated |-> FALSE, pool |-> 0]
NoPrev == [changed |-> FALSE, to |-> 0, before |-> 0]
NoTimer == [duration |-> 0, remaining |-> 0, isRunning |-> FALSE,
            isPaused |-> FALSE]
NoProps == [mounted |-> FALSE, duration |-> 0, autoStart |-> FALSE]
\* history of the Timer instance on screen: onComplete calls since the
\* countdown was last set to the full duration, the remaining time at the
\* last pause, whether the Pause button or the hidden tab paused it.
NoHist == [completions |-> 0, pausedAt |-> 0, byUser |-> FALSE,
           byHiding |-> FALSE]

InitFrontend ==
  /\ cachedItems = [sentences |-> 0, acronyms |-> 0]
  /\ storedHistory = [present |-> FALSE, history |-> NoHistory]
  /\ game = "none"
  /\ state = NoState
  /\ historyRef = NoHistory
  /\ current = 0
  /\ selectedCategory = ""
  /\ fetches = 0
  /\ shownOrder = NoHistory
  /\ lastPick = NoPick
  /\ lastDisplayed = 0
  /\ before = 0
  /\ lastPrev = NoPrev
  /\ timerProps = NoProps
  /\ timerState = NoTimer
  /\ intervalRef = FALSE
  /\ hidden = FALSE
  /\ lastOp = "none"
  /\ timerHist = NoHist
  /\ error = FALSE
  /\ lastFetch = "null"
  /\ fetchEnd = NoEnd

\* ---- content items, queries, database: constants and initial values ------
\* Strings are sequences of characters; an optional argument is the empty
\* set (undefined) or a singleton.
MaxLen == 3

CategoryStrings == {<<"K">>, <<"k">>, <<"D">>}

\* The items a sentences.json may hold: id 0 stands for the empty id and
\* <<>> for the empty category, which SentenceSchema rejects.
JsonSentences ==
  {[id |-> 1, category |-> <<"K">>], [id |-> 2, category |-> <<"k">>],
   [id |-> 1, category |-> <<"D">>], [id |-> 2, category |-> <<"D">>],
   [id |-> 0, category |-> <<"K">>], [id |-> 1, category |-> <<>>]}

JsonAcronyms == {[id |-> i] : i \in 0..2}

SeqsUpTo(S, n) == UNION {[1..k -> S] : k \in 0..n}

JsonFiles ==
  {c \in [sentences : SeqsUpTo(JsonSentences, MaxLen),
          acronyms : SeqsUpTo(JsonAcronyms, MaxLen)] :
     Len(c.sentences) + Len(c.acronyms) <= MaxLen}

NoItems == [loaded |-> FALSE, sentences |-> <<>>, acronyms |-> <<>>]

fallbackItems ==
  [sentences |-> <<[id |-> 1, category |-> <<"K">>],
                   [id |-> 2, category |-> <<"D">>]>>,
   acronyms |-> <<[id |-> 1], [id |-> 2]>>]

NoPage == [op |-> "none", category |-> {}, limit |-> {}, offset |-> {},
           status |-> 0, items |-> <<>>, total |-> 0, hasMore |-> FALSE]

InitQuery ==
  /\ contentJson = [sentences |-> <<>>, acronyms |-> <<>>]
  /\ contentItems = NoItems
  /\ page = NoPage

ConfigKeys == {"history.maxSize", "content.cacheTimeout"}

MaxValue == 2

NoDb == [created |-> FALSE, pool |-> FALSE, initialized |-> FALSE,
         ending |-> FALSE]

NoReply == [op |-> "none", ok |-> FALSE, status |-> 0, unavailable |-> FALSE,
            key |-> "", value |-> 0, persisted |-> FALSE]

InitDb ==
  /\ databaseUrl = FALSE
  /\ db = NoDb
  /\ dbUp = FALSE
  /\ appConfig = [k \in ConfigKeys |-> {}]
  /\ runtimeConfig = [k \in ConfigKeys |-> {}]
  /\ configured = FALSE
  /\ reply = NoReply

InitBackend ==
  /\ sentencesFile \in {ENOENT, 1}
  /\ acronymsFile \in {ENOENT, 1}
  /\ writes = 0
  /\ now = 0
  /\ fallbackContent \in {NullContent, defaultFallbackContent}
  /\ watchForChanges \in BOOLEAN
  /\ cachedContent = NullContent
  /\ lastLoadTime = 0
  /\ isLoading = FALSE
  /\ watchers = {}
  /\ initState = "new"
  /\ reads = [f \in Files |-> Idle]
  /\ owner = NoOwner
  /\ loadSeq = 0
  /\ fileReads = 0
  /\ timers = {}
  /\ timeout = 0 - 1
  /\ events = 0
  /\ cleanedUp = NoCleanup
  /\ mwCache = [k \in Keys |-> NoEntry]
  /\ globalCache = {}
  /\ lastResp = NoResp
  /\ ret = NoRet
  /\ reloadBetween = FALSE
  /\ lastEvent = 0 - 1
  /\ burstStart = 0 - 1
  /\ burstEvents = 0
  /\ burstReloads = 0
  /\ lastFireTime = 0 - 1
  /\ since = [f \in Files |-> {FileOf(f)}]
  /\ lastReload = NoReload
  /\ lastGood = NullContent

Init == InitBackend /\ InitFrontend /\ InitQuery /\ InitDb


\* ---- ConfigMapLoader: pure parts ---------------------------------------

\* (mutation: the age test reversed)
CacheValid_Reversed(cached, t, loaded) ==
  cached # NullContent /\ (t - loaded) > CacheTimeout

\* getContent, line 65: the cached content is served while it is younger
\* than cacheTimeout.
CacheValid(cached, t, loaded) ==
  cached # NullContent /\ (t - loaded) < CacheTimeout

\* loadJsonFile: the promise rejects for a missing file or unparsable JSON.
loadJsonFileRejects(v) == v \in {ENOENT, BadJson}

\* (mutation: only the sentences array is validated)
safeParse_SentencesOnly(s, a) == s \in Versions

\* ContentConfigSchema.safeParse(contentConfig).success
safeParse(s, a) == s \in Versions /\ a \in Versions

\* Promise.all settles when one read rejects or when both have resolved.
LoadSettled ==
  \/ \E f \in Files : reads[f] # Pending /\ loadJsonFileRejects(reads[f])
  \/ \A f \in Files : reads[f] # Pending

\* The try block of loadContent ran to its end.
LoadOk ==
  /\ \A f \in Files : reads[f] # Pending /\ ~loadJsonFileRejects(reads[f])
  /\ safeParse(reads["sentences"], reads["acronyms"])

\* The catch block of loadContent: the content the loader holds afterwards,
\* and whether the error is rethrown.
UsesFallback(cached, fb) == fb # NullContent /\ cached = NullContent

\* (mutation: the fallback branch is missing)
CatchContent_NoFallback(cached, fb) == cached

CatchContent(cached, fb) == IF UsesFallback(cached, fb) THEN fb ELSE cached

CatchThrows(cached, fb) == ~UsesFallback(cached, fb) /\ cached = NullContent

\* setupFileWatchers: a file is watched if fs.access finds it.
setupFileWatchers ==
  IF watchForChanges THEN {f \in Files : FileOf(f) # ENOENT} ELSE {}

\* isContentAvailable()
isContentAvailable == cachedContent # NullContent

\* clearCache(): globalCache.clear()
clearCache(g) == {}

\* History: the entries the middleware holds now predate a content update.
MarkOutdated(c) == [k \in Keys |-> [c[k] EXCEPT !.outdated = c[k].present]]

\* (mutation: the pending timeout is not cleared)
handleFileChangeTimers_NoClear(ts, handle, t) == ts \cup {t + DebounceDelay}

\* handleFileChange: clear the pending timeout, arm a new one.
handleFileChangeTimers(ts, handle, t) ==
  (ts \ {handle}) \cup {t + DebounceDelay}

\* ---- the environment ----------------------------------------------------

Tick ==
  /\ ~TimerDue
  /\ now < MaxTime
  /\ now' = now + 1
  /\ UNCHANGED <<fileVars, optVars, extVars, cleanedUp, cacheVars, loadVars, watchVars, initState,
                 httpVars, retVars, burstVars, reloadVars>>

\* History: an event now continues the burst of the previous event.
InBurst == lastEvent >= 0 /\ now - lastEvent < DebounceDelay

\* The 'change' event of fs.watch reaches the callback of setupFileWatchers,
\* which calls handleFileChange().
OnChange ==
  /\ timers' = handleFileChangeTimers(timers, timeout, now)
  /\ timeout' = now + DebounceDelay
  /\ lastEvent' = now
  /\ burstStart' = IF InBurst THEN burstStart ELSE now
  /\ burstEvents' = IF InBurst THEN burstEvents + 1 ELSE 1
  /\ burstReloads' = IF InBurst THEN burstReloads ELSE 0
  /\ UNCHANGED lastFireTime

\* The ConfigMap is updated: file f gets content v.  A watched file that is
\* rewritten raises 'change'; creating or deleting raises 'rename', which
\* the watcher callback ignores.
WriteFile ==
  \E f \in Files, v \in FileVals :
    /\ ~TimerDue
    /\ writes < MaxWrites
    /\ v # FileOf(f)
    /\ writes' = writes + 1
    /\ IF f = "sentences"
       THEN sentencesFile' = v /\ UNCHANGED acronymsFile
       ELSE acronymsFile' = v /\ UNCHANGED sentencesFile
    /\ since' = [since EXCEPT ![f] = @ \cup {v}]
    /\ IF f \in watchers /\ v # ENOENT /\ FileOf(f) # ENOENT
       THEN OnChange /\ UNCHANGED <<watchers, events>>
       ELSE UNCHANGED <<watchVars, burstVars>>
    /\ UNCHANGED <<now, optVars, extVars, cleanedUp, cacheVars, loadVars, initState, httpVars,
                   retVars, lastReload, lastGood>>

\* fs.watch reports a further 'change' for a watched file (one write is
\* often reported more than once).
ChangeEvent ==
  \E f \in watchers :
    /\ ~TimerDue
    /\ events < MaxEvents
    /\ FileOf(f) # ENOENT
    /\ events' = events + 1
    /\ OnChange
    /\ UNCHANGED <<fileVars, now, optVars, extVars, cleanedUp, cacheVars, loadVars, watchers,
                   initState, httpVars, retVars, reloadVars>>


\* cleanup(): every watcher is closed, the list is emptied and the listeners
\* are removed.  The timeout of the handleFileChange closure is not touched.
Cleanup ==
  /\ ~TimerDue
  /\ initState # "new"
  /\ ~cleanedUp.done
  /\ watchers' = {}
  /\ cleanedUp' = [done |-> TRUE, at |-> now, loads |-> loadSeq,
                   pending |-> timers # {}]
  /\ UNCHANGED <<fileVars, now, optVars, extVars, cacheVars, loadVars, timers,
                 timeout, events, initState, httpVars, retVars, burstVars,
                 reloadVars>>

\* ---- HTTP layer: pure parts ---------------------------------------------

\* ContentService.initialized
initialized == initState = "resolved"

\* responseCache: the entry of this middleware's own MemoryCache is served
\* while it is younger than ttl.
CacheHit(e, t) == e.present /\ (t - e.timestamp) < ResponseTtl

\* res.json of a 200 response: cache.set(cacheKey, {data, timestamp: now}).
Store(c, k, data, t) ==
  [c EXCEPT ![k] = [present |-> TRUE, data |-> data, timestamp |-> t,
                    outdated |-> FALSE]]

\* ---- ConfigMapLoader: operations ----------------------------------------

ReloadKinds == {"reload", "timer", "post"}

\* loadContent past its isLoading guard, up to the await of Promise.all:
\* both fs.readFile calls are issued.
StartLoad(o) ==
  /\ loadSeq < MaxLoads
  /\ isLoading' = TRUE
  /\ reads' = [f \in Files |-> Pending]
  /\ owner' = o
  /\ loadSeq' = loadSeq + 1
  /\ fileReads' = fileReads + 2

RecordReturn(r) ==
  /\ ret' = r
  /\ reloadBetween' = FALSE

\* initialize(): await loadContent(), then setupFileWatchers().
Initialize ==
  /\ ~TimerDue
  /\ initState = "new"
  /\ initState' = "loading"
  /\ StartLoad([NoOwner EXCEPT !.kind = "init"])
  /\ UNCHANGED <<fileVars, now, optVars, extVars, cleanedUp, cacheVars, watchVars, httpVars,
                 retVars, burstVars, reloadVars>>

\* getContent() up to its return, its throw, or the await of loadContent.
getContent(o) ==
  IF CacheValid(cachedContent, now, lastLoadTime)
  THEN /\ RecordReturn(Returned("value", cachedContent, o.call, fileReads,
                                lastGood))
       /\ UNCHANGED loadVars
  ELSE IF isLoading
  THEN /\ RecordReturn(Returned(IF cachedContent = NullContent
                                THEN "throw" ELSE "value",
                                cachedContent, o.call, fileReads, lastGood))
       /\ UNCHANGED loadVars
  ELSE /\ StartLoad(o)
       /\ UNCHANGED retVars

GetContent ==
  /\ ~TimerDue
  /\ initState # "new"
  /\ getContent([NoOwner EXCEPT !.kind = "get", !.call = CallInfo])
  /\ UNCHANGED <<fileVars, now, optVars, extVars, cleanedUp, cacheVars, watchVars, initState,
                 httpVars, burstVars, reloadVars>>

\* reloadContent() up to its return or the await of loadContent: the cache
\* is dropped, then loadContent is entered.
reloadContent(kind) ==
  /\ cachedContent' = NullContent
  /\ UNCHANGED <<lastLoadTime, lastGood, ret>>
  /\ reloadBetween' = TRUE
  /\ since' = [f \in Files |-> {FileOf(f)}]
  /\ IF isLoading
     THEN /\ lastReload' = [state |-> "returned", before |-> cachedContent,
                            after |-> NullContent, ownLoad |-> FALSE,
                            failed |-> FALSE,
                            overlapped |-> owner.kind \in ReloadKinds]
          /\ UNCHANGED loadVars
     ELSE /\ lastReload' = [state |-> "inflight", before |-> cachedContent,
                            after |-> NullContent, ownLoad |-> TRUE,
                            failed |-> FALSE, overlapped |-> FALSE]
          /\ StartLoad([NoOwner EXCEPT !.kind = kind])

ReloadContent ==
  /\ ~TimerDue
  /\ initState # "new"
  /\ reloadContent("reload")
  /\ UNCHANGED <<fileVars, now, optVars, extVars, cleanedUp, watchVars, initState, httpVars,
                 burstVars>>

\* The debounce timer of handleFileChange fires: reloadContent(), then
\* emit('contentReloaded'), which ContentService answers with clearCache().
TimerFire ==
  \E d \in timers :
    /\ d <= now
    /\ timers' = timers \ {d}
    /\ burstReloads' = burstReloads + 1
    /\ lastFireTime' = now
    /\ reloadContent("timer")
    /\ IF isLoading
       THEN /\ globalCache' = clearCache(globalCache)
            /\ mwCache' = MarkOutdated(mwCache)
            /\ UNCHANGED lastResp
       ELSE UNCHANGED httpVars
    /\ UNCHANGED <<fileVars, now, optVars, extVars, cleanedUp, watchers, timeout, events,
                   initState, lastEvent, burstStart, burstEvents>>

\* One of the two fs.readFile calls of the load in flight completes.
ReadFile ==
  \E f \in Files :
    /\ ~TimerDue
    /\ isLoading
    /\ reads[f] = Pending
    /\ reads' = [reads EXCEPT ![f] = FileOf(f)]
    /\ UNCHANGED <<fileVars, now, optVars, extVars, cleanedUp, cacheVars, isLoading, owner,
                   loadSeq, fileReads, watchVars, initState, httpVars,
                   retVars, burstVars, reloadVars>>

\* Promise.all settles: the rest of loadContent (validation, cache update,
\* catch, finally) and the continuation of the caller that awaits it.
LoadFinish ==
  /\ ~TimerDue
  /\ isLoading
  /\ LoadSettled
  /\ LET ok == LoadOk
         k == owner.kind
         loaded == [kind |-> "file", obj |-> loadSeq,
                    s |-> reads["sentences"], a |-> reads["acronyms"]]
         cached1 == IF ok THEN loaded
                    ELSE CatchContent(cachedContent, fallbackContent)
         throws == ~ok /\ CatchThrows(cachedContent, fallbackContent)
         updated == ok \/ UsesFallback(cachedContent, fallbackContent)
         good1 == IF ok THEN loaded ELSE lastGood
         notified == updated \/ (k \in {"timer", "post"} /\ ~throws)
         cache1 == IF notified THEN MarkOutdated(mwCache) ELSE mwCache
         result == IF throws \/ cached1 = NullContent
                   THEN Returned("throw", NullContent, owner.call, fileReads,
                                 good1)
                   ELSE Returned("value", cached1, owner.call, fileReads,
                                 good1)
     IN
     /\ cachedContent' = cached1
     /\ lastLoadTime' = IF updated THEN now ELSE lastLoadTime
     /\ isLoading' = FALSE
     /\ reads' = [f \in Files |-> Idle]
     /\ owner' = NoOwner
     /\ UNCHANGED <<loadSeq, fileReads>>
     /\ lastGood' = good1
     /\ globalCache' = IF notified THEN clearCache(globalCache)
                       ELSE globalCache
     /\ initState' = IF k = "init"
                     THEN (IF throws THEN "rejected" ELSE "resolved")
                     ELSE initState
     /\ watchers' = IF k = "init" /\ ~throws THEN setupFileWatchers
                    ELSE watchers
     /\ IF k \in {"get", "http"}
        THEN RecordReturn(result)
        ELSE UNCHANGED retVars
     /\ lastReload' = IF k \in ReloadKinds /\ lastReload.state = "inflight"
                      THEN [lastReload EXCEPT !.state = "returned",
                                              !.after = cached1,
                                              !.failed = ~ok]
                      ELSE lastReload
     /\ IF k = "http"
        THEN IF result.kind = "throw"
             THEN /\ lastResp' = [NoResp EXCEPT !.status = 500]
                  /\ mwCache' = cache1
             ELSE /\ lastResp' = [status |-> 200, xcache |-> "MISS",
                                  data |-> cached1, outdated |-> FALSE]
                  /\ mwCache' = Store(cache1, owner.key, cached1, owner.t0)
        ELSE IF k = "post"
        THEN /\ lastResp' = [NoResp EXCEPT !.status =
                               IF throws THEN 500 ELSE 200]
             /\ mwCache' = cache1
        ELSE /\ mwCache' = cache1
             /\ UNCHANGED lastResp
     /\ UNCHANGED <<fileVars, now, optVars, extVars, cleanedUp, timers, timeout, events,
                    burstVars, since>>

\* ---- HTTP layer: responseCache middleware and content routes ----------

\* GET /api/acronyms behind app.use('/api', responseCache(...)): a hit answers from the entry; a miss runs the route,
\* which calls ContentService and through it getContent().
HttpGet ==
  \E k \in Keys :
    /\ ~TimerDue
    /\ IF CacheHit(mwCache[k], now)
       THEN /\ lastResp' = [status |-> 200, xcache |-> "HIT",
                            data |-> mwCache[k].data,
                            outdated |-> mwCache[k].outdated]
            /\ UNCHANGED <<mwCache, globalCache, loadVars, retVars>>
       ELSE IF ~initialized
       THEN /\ lastResp' = [NoResp EXCEPT !.status = 500]
            /\ UNCHANGED <<mwCache, globalCache, loadVars, retVars>>
       ELSE /\ getContent([kind |-> "http", call |-> CallInfo, key |-> k,
                           t0 |-> now])
            /\ UNCHANGED globalCache
            /\ IF ~CacheValid(cachedContent, now, lastLoadTime) /\ ~isLoading
               THEN UNCHANGED <<mwCache, lastResp>>
               ELSE IF cachedContent = NullContent
               THEN /\ lastResp' = [NoResp EXCEPT !.status = 500]
                    /\ UNCHANGED mwCache
               ELSE /\ lastResp' = [status |-> 200, xcache |-> "MISS",
                                    data |-> cachedContent,
                                    outdated |-> FALSE]
                    /\ mwCache' = Store(mwCache, k, cachedContent, now)
    /\ UNCHANGED <<fileVars, now, optVars, extVars, cleanedUp, cacheVars, watchVars, initState,
                   burstVars, reloadVars>>

\* POST /api/content/reload: ContentService.reloadContent(), clearCache(),
\* then the 200 response.
PostContentReload ==
  /\ ~TimerDue
  /\ IF ~initialized
     THEN /\ lastResp' = [NoResp EXCEPT !.status = 500]
          /\ UNCHANGED <<cacheVars, loadVars, mwCache, globalCache, retVars,
                         reloadVars>>
     ELSE /\ reloadContent("post")
          /\ IF isLoading
             THEN /\ globalCache' = clearCache(globalCache)
                  /\ mwCache' = MarkOutdated(mwCache)
                  /\ lastResp' = [NoResp EXCEPT !.status = 200]
             ELSE UNCHANGED httpVars
  /\ UNCHANGED <<fileVars, now, optVars, extVars, cleanedUp, watchVars, initState, burstVars>>

\* ---- the loader under arbitrary callers, file watching off ------------
Next ==
  \/ Tick
  \/ WriteFile
  \/ Initialize
  \/ GetContent
  \/ ReloadContent
  \/ ReadFile
  \/ LoadFinish

InitLoader == Init /\ watchForChanges = FALSE

Spec == InitLoader /\ [][Next]_vars

\* ---- the loader with file watching on ----------------------------------
NextWatch ==
  \/ Tick
  \/ WriteFile
  \/ ChangeEvent
  \/ Initialize
  \/ GetContent
  \/ TimerFire
  \/ ReadFile
  \/ LoadFinish

InitWatch == Init /\ watchForChanges = TRUE

SpecWatch == InitWatch /\ [][NextWatch]_vars

\* ---- the loader with file watching on, until it is shut down ----------
NextCleanup ==
  \/ Tick
  \/ WriteFile
  \/ ChangeEvent
  \/ Initialize
  \/ TimerFire
  \/ ReadFile
  \/ LoadFinish
  \/ Cleanup

InitCleanup == Init /\ watchForChanges = TRUE

SpecCleanup == InitCleanup /\ [][NextCleanup]_vars

\* ---- the server in production: response cache on, fallback configured,
\* ---- file watching off, content reached through the HTTP routes --------
NextHttp ==
  \/ Tick
  \/ WriteFile
  \/ Initialize
  \/ HttpGet
  \/ PostContentReload
  \/ ReadFile
  \/ LoadFinish

InitHttp ==
  Init /\ watchForChanges = FALSE /\ fallbackContent = defaultFallbackContent

SpecHttp == InitHttp /\ [][NextHttp]_vars


\* ---- frontend: useContentManager (hooks/useContentManager.ts) -----------

Take(seq, n) == SubSeq(seq, 1, IF Len(seq) < n THEN Len(seq) ELSE n)
Without(seq, x) == SelectSeq(seq, LAMBDA y : y # x)
Contains(seq, x) == \E i \in 1..Len(seq) : seq[i] = x

\* (mutation: the id is put at the end of the list)
addToHistory_Append(history, id) ==
  Take(Without(history, id) \o <<id>>, maxHistorySize)

\* addToHistory: [id, ...history.filter(item => item !== id)]
\*                 .slice(0, opts.maxHistorySize)
addToHistory(history, id) ==
  Take(<<id>> \o Without(history, id), maxHistorySize)

\* loadHistoryFromStorage: the stored lists replace the initial empty ones.
\* JSON.stringify / JSON.parse of arrays of id strings give the same arrays.
loadHistoryFromStorage(ref, stored) ==
  IF stored.present THEN stored.history ELSE ref

\* getFilteredSentences(category) over n sentences; all n acronyms.
Pool(type, category, n) ==
  IF type = "sentences"
  THEN {id \in 1..n : category = "" \/ CategoryOf(id) = category}
  ELSE 1..n

\* (mutation: the recently shown items are not filtered out)
Candidates_All(pool, history) == pool

\* unshown items, or all available items when every one is in the history
Candidates(pool, history) ==
  LET unshown == {id \in pool : ~Contains(history, id)}
  IN IF unshown # {} THEN unshown ELSE pool

\* getPreviousSentence / getPreviousAcronym
getPrevious(type) ==
  LET history == historyRef[type]
  IN IF Len(history) < 2 THEN 0
     ELSE IF history[2] \in 1..state[type] THEN history[2] ELSE 0

\* getRandomSentence / getRandomAcronym returning item id: the id goes to
\* the front of the history, which is saved to localStorage.
getRandom(type, pool, id) ==
  /\ id \in Candidates(pool, historyRef[type])
  /\ historyRef' = [historyRef EXCEPT ![type] = addToHistory(@, id)]
  /\ storedHistory' = [present |-> TRUE, history |-> historyRef']
  /\ shownOrder' = [shownOrder EXCEPT ![type] = <<id>> \o Without(@, id)]
  /\ lastPick' = [repeated |-> Contains(Take(shownOrder[type], 2), id),
                  pool |-> Cardinality(pool)]

\* History: the item on screen, and the one that was on screen before it.
Display(item, loading) ==
  IF ~loading /\ item # 0 /\ item # lastDisplayed
  THEN lastDisplayed' = item /\ before' = lastDisplayed
  ELSE UNCHANGED <<lastDisplayed, before>>

\* loadNewSentence / loadNewAcronym of the game components
loadNew(type, pool, loading) ==
  IF pool = {}
  THEN /\ current' = 0
       /\ UNCHANGED <<historyRef, storedHistory, shownOrder, lastPick,
                      lastDisplayed, before>>
  ELSE \E id \in pool :
         /\ getRandom(type, pool, id)
         /\ current' = id
         /\ Display(id, loading)

\* ---- frontend: Timer (components/Timer.tsx) -----------------------------

InitialTimerState(d) ==
  [duration |-> d, remaining |-> d, isRunning |-> FALSE, isPaused |-> FALSE]

\* the updater queued by the auto-start effect
AutoStartEffect(t, autoStart) ==
  IF autoStart THEN [t EXCEPT !.isRunning = TRUE] ELSE t

\* the updater queued by the duration effect
DurationEffect_KeepPaused(t, d) ==
  [t EXCEPT !.duration = d, !.remaining = d, !.isRunning = FALSE]

DurationEffect(t, d) ==
  [t EXCEPT !.duration = d, !.remaining = d, !.isRunning = FALSE,
            !.isPaused = FALSE]

\* State after the mount effects: both updaters are applied in the order
\* in which the effects queued them.
MountEffects(d, autoStart) ==
  DurationEffect(AutoStartEffect(InitialTimerState(d), autoStart), d)

\* the countdown effect holds an interval exactly in this case
CountdownArmed_IgnorePause(t) == t.isRunning /\ t.remaining > 0

CountdownArmed(t) == t.isRunning /\ ~t.isPaused /\ t.remaining > 0

\* A Timer instance is created with these props and its effects run.
TimerRender(d, autoStart, op) ==
  /\ timerProps' = [mounted |-> TRUE, duration |-> d, autoStart |-> autoStart]
  /\ timerState' = MountEffects(d, autoStart)
  /\ intervalRef' = CountdownArmed(timerState')
  /\ lastOp' = op
  /\ timerHist' = NoHist
  /\ UNCHANGED hidden

\* The Timer instance is removed; the effect cleanup clears the interval.
TimerRemove(op) ==
  /\ timerProps' = NoProps
  /\ timerState' = NoTimer
  /\ intervalRef' = FALSE
  /\ lastOp' = op
  /\ timerHist' = NoHist
  /\ UNCHANGED hidden

\* setTimerKey(prev => prev + 1): the Timer, if rendered, is replaced by a
\* new instance with the same props.
ReKey(op) ==
  IF timerProps.mounted
  THEN TimerRender(timerProps.duration, timerProps.autoStart, op)
  ELSE /\ lastOp' = op
       /\ UNCHANGED <<timerProps, timerState, intervalRef, hidden,
                      timerHist>>

\* The updater of the setInterval callback.
IntervalUpdater_KeepRunning(prev) ==
  LET newRemaining == prev.remaining - 1
  IN IF newRemaining <= 0
     THEN [prev EXCEPT !.remaining = 0]
     ELSE [prev EXCEPT !.remaining = newRemaining]

IntervalUpdater(prev) ==
  LET newRemaining == prev.remaining - 1
  IN IF newRemaining <= 0
     THEN [prev EXCEPT !.remaining = 0, !.isRunning = FALSE,
                       !.isPaused = FALSE]
     ELSE [prev EXCEPT !.remaining = newRemaining]

\* The state handleVisibilityChange sets when the tab is visible or not.
VisibilityUpdater_PauseOnly(t, isVisible) ==
  IF ~t.isRunning THEN t
  ELSE IF ~isVisible /\ ~t.isPaused THEN [t EXCEPT !.isPaused = TRUE]
  ELSE t

VisibilityUpdater(t, isVisible) ==
  IF ~t.isRunning THEN t
  ELSE IF isVisible /\ t.isPaused THEN [t EXCEPT !.isPaused = FALSE]
  ELSE IF ~isVisible /\ ~t.isPaused THEN [t EXCEPT !.isPaused = TRUE]
  ELSE t

\* A setTimerState call of a button or of the interval callback.
Completed(h) ==
  [h EXCEPT !.completions = IF @ < 2 THEN @ + 1 ELSE @]

History(op) ==
  LET h == [timerHist EXCEPT !.byHiding = FALSE]
  IN IF op = "pause"
     THEN [h EXCEPT !.pausedAt = timerState.remaining, !.byUser = TRUE]
     ELSE IF op = "resume"
     THEN [h EXCEPT !.byUser = FALSE]
     ELSE IF op = "tick"
     THEN (IF timerState.remaining - 1 <= 0 THEN Completed(h) ELSE h)
     ELSE IF op = "start"
     THEN h
     ELSE NoHist

SetTimerState(t, op) ==
  /\ timerState' = t
  /\ intervalRef' = CountdownArmed(t)
  /\ lastOp' = op
  /\ timerHist' = History(op)
  /\ UNCHANGED <<timerProps, hidden>>

\* ---- frontend: the game components --------------------------------------

\* The auto-refresh effect's shouldRefresh, with lastFetch as the age of
\* the last successful fetch.
ShouldRefresh == lastFetch # "fresh"

\* The component renders neither the loading nor the error screen.
OnGameScreen == game # "none" /\ ~state.isLoading /\ ~error

\* A game route is entered while online: the hook loads the cached content
\* and the stored history, refreshContent starts and the loading screen is
\* rendered.  The first run of the load effect sees no sentences yet.
Mount ==
  \E g \in Games :
    /\ game = "none"
    /\ fetches < MaxFetches
    /\ game' = g
    /\ state' = [sentences |-> cachedItems.sentences,
                 acronyms |-> cachedItems.acronyms, isLoading |-> TRUE]
    /\ historyRef' = loadHistoryFromStorage(NoHistory, storedHistory)
    /\ current' = 0
    /\ selectedCategory' = ""
    /\ fetches' = fetches + 1
    /\ lastDisplayed' = 0
    /\ before' = 0
    /\ lastPrev' = NoPrev
    /\ TimerRemove("loading")
    /\ error' = FALSE
    /\ fetchEnd' = NoEnd
    /\ UNCHANGED <<storageVars, shownOrder, lastPick, lastFetch, backVars>>

\* Esc / Back: the game screen is left.
Unmount ==
  /\ game # "none"
  /\ ~state.isLoading
  /\ game' = "none"
  /\ state' = NoState
  /\ historyRef' = NoHistory
  /\ current' = 0
  /\ selectedCategory' = ""
  /\ TimerRemove("unmount")
  /\ error' = FALSE
  /\ fetchEnd' = NoEnd
  /\ UNCHANGED <<storageVars, fetches, shownVars, lastFetch, backVars>>

\* fetchContent resolves with n sentences and n acronyms: saveToCache,
\* isLoading false; the game screen is rendered with a new Timer and the
\* load effect picks an item.
FetchOk ==
  \E n \in 0..MaxItems :
    /\ game # "none"
    /\ state.isLoading
    /\ state' = [sentences |-> n, acronyms |-> n, isLoading |-> FALSE]
    /\ cachedItems' = [sentences |-> n, acronyms |-> n]
    /\ loadNew(TypeOf(game), Pool(TypeOf(game), selectedCategory, n), FALSE)
    /\ TimerRender(TIMER_DURATION(game), FALSE, "mount")
    /\ lastFetch' = "fresh"
    /\ fetchEnd' = NoEnd
    /\ UNCHANGED <<game, selectedCategory, fetches, lastPrev, error,
                   backVars>>

\* The browser comes back online with the cached content expired: the
\* auto-refresh effect calls refreshContent and the loading screen shows.
Refresh ==
  /\ game # "none"
  /\ ~state.isLoading
  /\ fetches < MaxFetches
  /\ fetches' = fetches + 1
  /\ state' = [state EXCEPT !.isLoading = TRUE]
  /\ TimerRemove("loading")
  /\ error' = FALSE
  /\ lastFetch' = "expired"
  /\ fetchEnd' = NoEnd
  /\ UNCHANGED <<storageVars, game, historyRef, current, selectedCategory,
                 shownVars, backVars>>

\* fetchContent rejects: error is set and isLoading cleared; the
\* auto-refresh effect runs again because isLoading changed and, with no
\* unexpired lastFetch, calls refreshContent, which clears the error.
FetchFail ==
  /\ game # "none"
  /\ state.isLoading
  /\ IF ShouldRefresh
     THEN /\ fetches < MaxFetches
          /\ fetches' = fetches + 1
          /\ error' = FALSE
          /\ UNCHANGED state
     ELSE /\ error' = TRUE
          /\ state' = [state EXCEPT !.isLoading = FALSE]
          /\ UNCHANGED fetches
  /\ fetchEnd' = [failed |-> TRUE,
                  hadCache |-> state.sentences > 0 \/ state.acronyms > 0,
                  refetched |-> ShouldRefresh]
  /\ TimerRemove("loading")
  /\ UNCHANGED <<storageVars, game, historyRef, current, selectedCategory,
                 shownVars, lastFetch, backVars>>

\* More than cacheExpiry has passed since the last successful fetch.
CacheExpires ==
  /\ lastFetch = "fresh"
  /\ lastFetch' = "expired"
  /\ UNCHANGED <<storageVars, hookVars, shownVars, timerVars, error, fetchEnd,
                 backVars>>

\* Right arrow: handleShuffle.
PressArrowRight ==
  /\ game # "none"
  /\ loadNew(TypeOf(game),
             Pool(TypeOf(game), selectedCategory, state[TypeOf(game)]),
             ~OnGameScreen)
  /\ ReKey("rekey")
  /\ UNCHANGED <<cachedItems, game, state, selectedCategory, fetches,
                 lastPrev, fetchVars, backVars>>

\* Left arrow: handlePrevious.
PressArrowLeft ==
  /\ game # "none"
  /\ LET previous == getPrevious(TypeOf(game))
     IN /\ lastPrev' = IF OnGameScreen /\ previous # 0
                             /\ previous # current
                        THEN [changed |-> TRUE, to |-> previous,
                              before |-> before]
                        ELSE NoPrev
        /\ IF previous # 0
           THEN /\ current' = previous
                /\ Display(previous, ~OnGameScreen)
                /\ ReKey("rekey")
           ELSE UNCHANGED <<current, lastDisplayed, before, timerVars>>
  /\ UNCHANGED <<storageVars, game, state, historyRef, selectedCategory,
                 fetches, shownOrder, lastPick, fetchVars, backVars>>

\* The category dropdown of Finish the Sentence: handleCategoryChange, then
\* the load effect picks an item of the new category.
SelectCategory ==
  \E c \in {""} \cup Categories :
    /\ game = "finish-sentence"
    /\ OnGameScreen
    /\ c # selectedCategory
    /\ selectedCategory' = c
    /\ loadNew("sentences", Pool("sentences", c, state.sentences), FALSE)
    /\ UNCHANGED <<cachedItems, game, state, fetches, lastPrev, timerVars,
                   fetchVars, backVars>>

\* Space on a screen that renders <Timer key={timerKey} autoStart={false}>:
\* handleRestartTimer.
PressSpace ==
  /\ timerProps.mounted
  /\ ~timerProps.autoStart
  /\ ReKey("Space")
  /\ UNCHANGED <<storageVars, hookVars, shownVars, fetchVars, backVars>>

\* ---- frontend: the Timer under its controls -----------------------------

\* A screen renders <Timer duration={d} autoStart={a}>.
TimerMount ==
  \E d \in 1..MaxDuration, a \in BOOLEAN :
    /\ ~timerProps.mounted
    /\ TimerRender(d, a, "mount")
    /\ UNCHANGED <<storageVars, hookVars, shownVars, fetchVars, backVars>>

TimerUnmount ==
  /\ timerProps.mounted
  /\ TimerRemove("unmount")
  /\ UNCHANGED <<storageVars, hookVars, shownVars, fetchVars, backVars>>

\* Start is rendered while the timer is not running, enabled unless expired.
startTimer ==
  /\ timerProps.mounted
  /\ ~timerState.isRunning
  /\ timerState.remaining # 0
  /\ SetTimerState([timerState EXCEPT !.isRunning = TRUE,
                                      !.isPaused = FALSE], "start")
  /\ UNCHANGED <<storageVars, hookVars, shownVars, fetchVars, backVars>>

pauseTimer ==
  /\ timerProps.mounted
  /\ timerState.isRunning
  /\ ~timerState.isPaused
  /\ SetTimerState([timerState EXCEPT !.isPaused = TRUE], "pause")
  /\ UNCHANGED <<storageVars, hookVars, shownVars, fetchVars, backVars>>

resumeTimer ==
  /\ timerProps.mounted
  /\ timerState.isRunning
  /\ timerState.isPaused
  /\ SetTimerState([timerState EXCEPT !.isPaused = FALSE], "resume")
  /\ UNCHANGED <<storageVars, hookVars, shownVars, fetchVars, backVars>>

resetTimer ==
  /\ timerProps.mounted
  /\ SetTimerState([timerState EXCEPT !.remaining = timerState.duration,
                                      !.isRunning = FALSE,
                                      !.isPaused = FALSE], "reset")
  /\ UNCHANGED <<storageVars, hookVars, shownVars, fetchVars, backVars>>

restartTimer ==
  /\ timerProps.mounted
  /\ SetTimerState([timerState EXCEPT !.remaining = timerState.duration,
                                      !.isRunning = TRUE,
                                      !.isPaused = FALSE], "restart")
  /\ UNCHANGED <<storageVars, hookVars, shownVars, fetchVars, backVars>>

\* The setInterval callback, 1000 ms after the countdown effect armed it.
IntervalTick ==
  /\ intervalRef
  /\ SetTimerState(IntervalUpdater(timerState), "tick")
  /\ UNCHANGED <<storageVars, hookVars, shownVars, fetchVars, backVars>>

\* The parent renders the Timer with another duration (TimerDemo's number
\* input, whose value is not checked): the duration effect runs again.
DurationChange ==
  \E d \in (0 - 1)..MaxDuration :
    /\ timerProps.mounted
    /\ d # timerProps.duration
    /\ timerProps' = [timerProps EXCEPT !.duration = d]
    /\ timerState' = DurationEffect(timerState, d)
    /\ intervalRef' = CountdownArmed(timerState')
    /\ lastOp' = "duration"
    /\ timerHist' = NoHist
    /\ UNCHANGED hidden
    /\ UNCHANGED <<storageVars, hookVars, shownVars, fetchVars, backVars>>

\* 'visibilitychange': the tab is hidden or shown again.
handleVisibilityChange ==
  /\ hidden' = ~hidden
  /\ lastOp' = "visibility"
  /\ UNCHANGED timerProps
  /\ LET isVisible == hidden
         t == IF ~timerProps.mounted THEN timerState
              ELSE VisibilityUpdater(timerState, isVisible)
     IN /\ timerState' = t
        /\ intervalRef' = (timerProps.mounted /\ CountdownArmed(t))
        /\ timerHist' =
             IF ~timerProps.mounted THEN timerHist
             ELSE IF isVisible THEN timerHist
             ELSE IF timerState.isRunning /\ ~timerState.isPaused
             THEN [timerHist EXCEPT !.byHiding = TRUE,
                                    !.pausedAt = timerState.remaining]
             ELSE [timerHist EXCEPT !.byHiding = FALSE]
  /\ UNCHANGED <<storageVars, hookVars, shownVars, fetchVars, backVars>>

\* ---- a game session: content picking and navigation -------------------
NextGame ==
  \/ Mount
  \/ Unmount
  \/ FetchOk
  \/ Refresh
  \/ PressArrowRight
  \/ PressArrowLeft
  \/ SelectCategory

InitGame ==
  /\ Init
  /\ sentencesFile = 1
  /\ acronymsFile = 1
  /\ fallbackContent = defaultFallbackContent
  /\ watchForChanges = FALSE

SpecGame == InitGame /\ [][NextGame]_vars

\* ---- content fetches that can fail ---------------------------------------
NextFetch ==
  \/ Mount
  \/ Unmount
  \/ FetchOk
  \/ FetchFail
  \/ Refresh
  \/ CacheExpires

InitFetch == InitGame

SpecFetch == InitFetch /\ [][NextFetch]_vars

\* ---- a Timer on screen ---------------------------------------------------
NextTimer ==
  \/ TimerMount
  \/ TimerUnmount
  \/ PressSpace
  \/ startTimer
  \/ pauseTimer
  \/ resumeTimer
  \/ resetTimer
  \/ restartTimer
  \/ IntervalTick
  \/ DurationChange
  \/ handleVisibilityChange

InitTimer == InitGame

SpecTimer == InitTimer /\ [][NextTimer]_vars


\* ---- content items: validation, filtering, pagination --------------------
The(opt) == CHOOSE v \in opt : TRUE

\* String.prototype.toLowerCase over the alphabet of CategoryStrings.
toLowerCase(str) ==
  [i \in DOMAIN str |->
     IF str[i] = "K" THEN "k" ELSE IF str[i] = "D" THEN "d" ELSE str[i]]

\* z.string().min(1) on id and on category.
SentenceSchema(item) == item.id # 0 /\ item.category # <<>>

AcronymSchema(item) == item.id # 0

ContentConfigSchema(c) ==
  /\ \A i \in DOMAIN c.sentences : SentenceSchema(c.sentences[i])
  /\ \A i \in DOMAIN c.acronyms : AcronymSchema(c.acronyms[i])

\* loadContent on a fresh loader that has a fallback: the validated files,
\* else the fallback content.
loadContentItems(json) ==
  IF ContentConfigSchema(json)
  THEN [loaded |-> TRUE, sentences |-> json.sentences,
        acronyms |-> json.acronyms]
  ELSE [loaded |-> TRUE, sentences |-> fallbackItems.sentences,
        acronyms |-> fallbackItems.acronyms]

\* !category
Falsy(category) == category = {} \/ category = {<<>>}

getSentences_CaseSensitive(content, category) ==
  IF Falsy(category)
  THEN content.sentences
  ELSE SelectSeq(content.sentences,
                 LAMBDA s : s.category = The(category))

getSentences(content, category) ==
  IF Falsy(category)
  THEN content.sentences
  ELSE SelectSeq(content.sentences,
                 LAMBDA s : toLowerCase(s.category)
                              = toLowerCase(The(category)))

getAcronyms(content) == content.acronyms

\* The values of getCategories: a sorted array of distinct strings, as a set.
getCategories(content) ==
  {content.sentences[i].category : i \in DOMAIN content.sentences}

\* Array.prototype.slice(start, end)
Clamp(i, len) ==
  IF i < 0
  THEN (IF len + i < 0 THEN 0 ELSE len + i)
  ELSE (IF i > len THEN len ELSE i)

slice(seq, start, end) ==
  LET s == Clamp(start, Len(seq))
      e == Clamp(end, Len(seq))
  IN IF s < e THEN SubSeq(seq, s + 1, e) ELSE <<>>

paginate_Length(list, limit, offset) ==
  IF limit # {} /\ offset # {}
  THEN slice(list, The(offset), The(limit))
  ELSE list

paginate(list, limit, offset) ==
  IF limit # {} /\ offset # {}
  THEN slice(list, The(offset), The(offset) + The(limit))
  ELSE list

\* SentencesQuerySchema / AcronymsQuerySchema
DefaultLimit == 50

MaxLimit == 100

QuerySchema(limit, offset) ==
  /\ limit # {} => (The(limit) >= 1 /\ The(limit) <= MaxLimit)
  /\ offset # {} => The(offset) >= 0

WithDefault(opt, default) == IF opt = {} THEN {default} ELSE opt

OptCategories == {{}} \cup {{c} : c \in CategoryStrings \cup {<<>>, <<"d">>}}

OptLimits == {{}} \cup {{n} : n \in 0..MaxLen} \cup {{MaxLimit + 1}}

OptOffsets == {{}} \cup {{n} : n \in (0 - 1)..MaxLen}

Result(op, category, limit, offset, list, items) ==
  [op |-> op, category |-> category, limit |-> limit, offset |-> offset,
   status |-> 200, items |-> items, total |-> Len(list),
   hasMore |-> limit # {} /\ offset # {}
                 /\ The(offset) + The(limit) < Len(list)]

BadRequest(op, category, limit, offset) ==
  [op |-> op, category |-> category, limit |-> limit, offset |-> offset,
   status |-> 400, items |-> <<>>, total |-> 0, hasMore |-> FALSE]

\* ConfigMapLoader.loadContent, first load
LoadContent ==
  /\ ~contentItems.loaded
  /\ contentItems' = loadContentItems(contentJson)
  /\ UNCHANGED <<contentJson, page, loaderVars, frontVars, dbVars>>

\* The query handlers write no state of the program: page holds the answer
\* to the one request a behaviour examines.
\* ConfigMapLoader.getSentences(category?)
LoaderGetSentences ==
  /\ contentItems.loaded
  /\ page = NoPage
  /\ \E category \in OptCategories :
       LET list == getSentences(contentItems, category)
       IN page' = Result("loader.getSentences", category, {}, {}, list, list)
  /\ UNCHANGED <<contentJson, contentItems, loaderVars, frontVars, dbVars>>

\* ContentService.getSentences(category?, limit?, offset?)
ServiceGetSentences ==
  /\ contentItems.loaded
  /\ page = NoPage
  /\ \E category \in OptCategories, limit \in OptLimits,
        offset \in OptOffsets :
       LET list == getSentences(contentItems, category)
       IN page' = Result("service.getSentences", category, limit, offset,
                         list, paginate(list, limit, offset))
  /\ UNCHANGED <<contentJson, contentItems, loaderVars, frontVars, dbVars>>

\* ContentService.getAcronyms(limit?, offset?)
ServiceGetAcronyms ==
  /\ contentItems.loaded
  /\ page = NoPage
  /\ \E limit \in OptLimits, offset \in OptOffsets :
       LET list == getAcronyms(contentItems)
       IN page' = Result("service.getAcronyms", {}, limit, offset,
                         list, paginate(list, limit, offset))
  /\ UNCHANGED <<contentJson, contentItems, loaderVars, frontVars, dbVars>>

\* GET /api/content/sentences
ApiGetSentences ==
  /\ contentItems.loaded
  /\ page = NoPage
  /\ \E category \in OptCategories, limit \in OptLimits,
        offset \in OptOffsets :
       IF ~QuerySchema(limit, offset)
       THEN page' = BadRequest("GET /sentences", category, limit, offset)
       ELSE LET l == WithDefault(limit, DefaultLimit)
                o == WithDefault(offset, 0)
                list == getSentences(contentItems, category)
            IN page' = Result("GET /sentences", category, l, o, list,
                              paginate(list, l, o))
  /\ UNCHANGED <<contentJson, contentItems, loaderVars, frontVars, dbVars>>

\* GET /api/content/acronyms
ApiGetAcronyms ==
  /\ contentItems.loaded
  /\ page = NoPage
  /\ \E limit \in OptLimits, offset \in OptOffsets :
       IF ~QuerySchema(limit, offset)
       THEN page' = BadRequest("GET /acronyms", {}, limit, offset)
       ELSE LET l == WithDefault(limit, DefaultLimit)
                o == WithDefault(offset, 0)
                list == getAcronyms(contentItems)
            IN page' = Result("GET /acronyms", {}, l, o, list,
                              paginate(list, l, o))
  /\ UNCHANGED <<contentJson, contentItems, loaderVars, frontVars, dbVars>>

NextContent ==
  \/ LoadContent
  \/ LoaderGetSentences
  \/ ServiceGetSentences
  \/ ServiceGetAcronyms
  \/ ApiGetSentences
  \/ ApiGetAcronyms

InitContent ==
  /\ InitBackend
  /\ sentencesFile = 1
  /\ acronymsFile = 1
  /\ fallbackContent = defaultFallbackContent
  /\ watchForChanges = FALSE
  /\ InitFrontend
  /\ InitDb
  /\ contentJson \in JsonFiles
  /\ contentItems = NoItems
  /\ page = NoPage

SpecContent == InitContent /\ [][NextContent]_vars


\* ---- DatabaseService, ConfigurationService, session routes ----------------
\* Configuration values are decimal strings of numbers; the model writes the
\* number for the string.
envConfig == [k \in ConfigKeys |-> 1]

\* No connection can be had: the service was never created, has no pool
\* (not initialized yet, or cleaned up), or the server cannot be reached.
DbUnavailable == ~db.created \/ ~db.pool \/ db.ending \/ ~dbUp

\* What a DatabaseService method called through getDatabaseService() throws.
\* tables: whether the tables exist, which initialize() guarantees.
DbError(tables) ==
  IF ~db.created THEN "not created"
  ELSE IF ~db.pool THEN "not initialized"
  ELSE IF db.ending \/ ~dbUp THEN "connect"
  ELSE IF ~tables THEN "query"
  ELSE "none"

Tables == IF db.initialized THEN {TRUE} ELSE BOOLEAN

setRuntimeConfig_Rethrow(rc, key, value, err) ==
  [runtimeConfig |-> [rc EXCEPT ![key] = {value}],
   persisted |-> err = "none",
   ok |-> err = "none"]

setRuntimeConfig(rc, key, value, err) ==
  [runtimeConfig |-> [rc EXCEPT ![key] = {value}],
   persisted |-> err = "none",
   ok |-> TRUE]

loadRuntimeConfig(rc, err) ==
  IF err = "none"
  THEN [k \in ConfigKeys |-> IF appConfig[k] # {} THEN appConfig[k] ELSE rc[k]]
  ELSE rc

\* setDefaultConfiguration: setRuntimeConfig for every key not present.
setDefaultConfiguration(rc, err) ==
  [runtimeConfig |->
     [k \in ConfigKeys |->
        IF rc[k] = {}
        THEN setRuntimeConfig(rc, k, envConfig[k], err).runtimeConfig[k]
        ELSE rc[k]],
   persisted |-> err = "none",
   ok |-> \A k \in ConfigKeys :
            rc[k] = {} => setRuntimeConfig(rc, k, envConfig[k], err).ok]

getRuntimeConfigNumber(key, defaultValue) ==
  IF runtimeConfig[key] = {} THEN defaultValue ELSE The(runtimeConfig[key])

Reply(op, ok, status, key, value, persisted) ==
  [op |-> op, ok |-> ok, status |-> status, unavailable |-> DbUnavailable,
   key |-> key, value |-> value, persisted |-> persisted]

\* ConfigurationService.initialize
ConfigInitialize ==
  /\ ~configured
  /\ \E tables \in Tables :
       LET err == DbError(tables)
           loaded == loadRuntimeConfig(runtimeConfig, err)
           set == setDefaultConfiguration(loaded, err)
       IN /\ runtimeConfig' = set.runtimeConfig
          /\ appConfig' = [k \in ConfigKeys |->
                            IF err = "none" /\ loaded[k] = {}
                            THEN {envConfig[k]}
                            ELSE appConfig[k]]
          /\ reply' = Reply("initialize", TRUE, 0, "", 0, set.persisted)
  /\ configured' = TRUE
  /\ UNCHANGED <<databaseUrl, db, dbUp, queryVars, loaderVars, frontVars>>

\* PUT /api/config/history -> setHistorySize
PutConfigHistory ==
  /\ \E maxSize \in 0..MaxValue, tables \in Tables :
       IF maxSize < 1
       THEN /\ reply' = Reply("PUT /config/history", FALSE, 400,
                              "history.maxSize", maxSize, FALSE)
            /\ UNCHANGED <<runtimeConfig, appConfig>>
       ELSE LET err == DbError(tables)
                set == setRuntimeConfig(runtimeConfig, "history.maxSize",
                                        maxSize, err)
            IN /\ runtimeConfig' = set.runtimeConfig
               /\ appConfig' = IF err = "none"
                               THEN [appConfig EXCEPT
                                       !["history.maxSize"] = {maxSize}]
                               ELSE appConfig
               /\ reply' = Reply("PUT /config/history", set.ok,
                                 IF set.ok THEN 200 ELSE 500,
                                 "history.maxSize", maxSize, set.persisted)
  /\ UNCHANGED <<databaseUrl, db, dbUp, configured, queryVars, loaderVars,
                 frontVars>>

\* GET /api/config/game -> getGameConfiguration
GetConfigGame ==
  /\ \E key \in ConfigKeys :
       reply' = Reply("GET /config/game", TRUE, 200, key,
                      getRuntimeConfigNumber(key, envConfig[key]), FALSE)
  /\ UNCHANGED <<databaseUrl, db, dbUp, appConfig, runtimeConfig, configured,
                 queryVars, loaderVars, frontVars>>

\* GET /api/content/categories -> ContentService.getCategories
ApiGetCategories ==
  /\ contentItems.loaded
  /\ reply' = Reply("GET /content/categories", TRUE, 200, "",
                    Cardinality(getCategories(contentItems)), FALSE)
  /\ UNCHANGED <<databaseUrl, db, dbUp, appConfig, runtimeConfig, configured,
                 queryVars, loaderVars, frontVars>>

\* DatabaseService.initialize: the pool is assigned before the connection
\* test; a failure leaves it assigned.
DbInitialize ==
  /\ db.created /\ ~db.pool /\ ~db.ending
  /\ db' = [db EXCEPT !.pool = TRUE, !.initialized = dbUp]
  /\ UNCHANGED <<databaseUrl, dbUp, appConfig, runtimeConfig, configured,
                 reply, queryVars, loaderVars, frontVars>>

\* DatabaseService.cleanup up to the await of pool.end()
DbCleanup ==
  /\ db.created /\ db.pool /\ ~db.ending
  /\ db' = [db EXCEPT !.ending = TRUE]
  /\ UNCHANGED <<databaseUrl, dbUp, appConfig, runtimeConfig, configured,
                 reply, queryVars, loaderVars, frontVars>>

\* DatabaseService.cleanup after pool.end() has resolved
DbCleanupDone ==
  /\ db.ending
  /\ db' = [db EXCEPT !.pool = FALSE, !.initialized = FALSE,
                      !.ending = FALSE]
  /\ UNCHANGED <<databaseUrl, dbUp, appConfig, runtimeConfig, configured,
                 reply, queryVars, loaderVars, frontVars>>

\* The PostgreSQL server becomes unreachable or reachable.
NetworkChange ==
  /\ databaseUrl
  /\ dbUp' = ~dbUp
  /\ UNCHANGED <<databaseUrl, db, appConfig, runtimeConfig, configured,
                 reply, queryVars, loaderVars, frontVars>>

\* The catch block of a session route followed by errorHandler.
SessionStatus(err, valid, success) ==
  IF err = "not created" THEN 503
  ELSE IF ~valid THEN 400
  ELSE IF err # "none" THEN 500
  ELSE success

SessionReply(op, status) == Reply(op, status < 400, status, "", 0, FALSE)

\* POST /api/sessions
PostSession ==
  /\ \E valid \in BOOLEAN, tables \in Tables :
       reply' = SessionReply("POST /sessions",
                             SessionStatus(DbError(tables), valid, 201))
  /\ UNCHANGED <<databaseUrl, db, dbUp, appConfig, runtimeConfig, configured,
                 queryVars, loaderVars, frontVars>>

\* PUT /api/sessions/:sessionId
PutSession ==
  /\ \E valid \in BOOLEAN, tables \in Tables :
       reply' = SessionReply("PUT /sessions/:id",
                             SessionStatus(DbError(tables), valid, 200))
  /\ UNCHANGED <<databaseUrl, db, dbUp, appConfig, runtimeConfig, configured,
                 queryVars, loaderVars, frontVars>>

\* GET /api/sessions/:sessionId
GetSession ==
  /\ \E found \in BOOLEAN, tables \in Tables :
       reply' = SessionReply("GET /sessions/:id",
                             SessionStatus(DbError(tables), TRUE,
                                           IF found THEN 200 ELSE 404))
  /\ UNCHANGED <<databaseUrl, db, dbUp, appConfig, runtimeConfig, configured,
                 queryVars, loaderVars, frontVars>>

NextDb ==
  \/ ConfigInitialize
  \/ PutConfigHistory
  \/ GetConfigGame
  \/ LoadContent
  \/ ApiGetCategories
  \/ DbInitialize
  \/ DbCleanup
  \/ DbCleanupDone
  \/ NetworkChange
  \/ PostSession
  \/ PutSession
  \/ GetSession

\* The process after module load: createDefaultDatabaseService has created
\* the service exactly when DATABASE_URL is set.
InitDatabase ==
  /\ InitBackend
  /\ sentencesFile = 1
  /\ acronymsFile = 1
  /\ fallbackContent = defaultFallbackContent
  /\ watchForChanges = FALSE
  /\ InitFrontend
  /\ contentJson = fallbackItems
  /\ contentItems = NoItems
  /\ page = NoPage
  /\ databaseUrl \in BOOLEAN
  /\ db = [NoDb EXCEPT !.created = databaseUrl]
  /\ dbUp \in {databaseUrl, FALSE}
  /\ appConfig \in {[k \in ConfigKeys |-> {}],
                    [k \in ConfigKeys |->
                       IF databaseUrl /\ k = "history.maxSize"
                       THEN {MaxValue} ELSE {}]}
  /\ runtimeConfig = [k \in ConfigKeys |-> {}]
  /\ configured = FALSE
  /\ reply = NoReply

SpecDb == InitDatabase /\ [][NextDb]_vars


\* ======================= properties ======================================

\* Both reads of the load in flight returned valid content.
ReadValid == \A f \in Files : reads[f] \in Versions

\* The load in flight ends in this step.
LoadEnds == isLoading /\ ~isLoading'

\* A content set that passed validation, or the configured fallback set.
Validated(c) ==
  \/ c # NullContent /\ c = fallbackContent
  \/ c.kind = "file" /\ c.s \in Versions /\ c.a \in Versions

\* The cached content is what the files held at some moment since the most
\* recently started reloadContent (a failed load: they held something
\* unreadable or invalid).
ReflectsFilesSinceReload ==
  IF cachedContent.kind = "file"
  THEN cachedContent.s \in since["sentences"]
       /\ cachedContent.a \in since["acronyms"]
  ELSE \E f \in Files : ~(since[f] \subseteq Versions)

\* C1: a reloadContent() that was called with content cached and whose load
\* failed leaves the cached content as it was before the call.
C1_ReloadKeepsPrevious ==
  (lastReload.state = "returned" /\ lastReload.ownLoad /\ lastReload.failed
     /\ lastReload.before # NullContent)
  => lastReload.after = lastReload.before

\* C2: once a load has succeeded, getContent() never throws, and while the
\* files hold invalid JSON it returns the most recently loaded content.
C2_ServesLastGood ==
  ret.afterSuccess =>
    /\ ret.kind = "value"
    /\ ret.invalidJson => ret.isLastGood

\* C3: a GET answered from the response cache never uses an entry that was
\* stored before a content-updated / content-reloaded notification or a
\* successful POST /api/content/reload.
C3_ResponseCacheInvalidated ==
  lastResp.xcache = "HIT" => ~lastResp.outdated

\* C4: a getContent() call that finds the cache younger than cacheTimeout
\* returns the cached object and issues no file read; two such calls with no
\* reloadContent between them return the identical object.
C4_FreshCallsShareObject ==
  [][ /\ ret'.state = "fresh" =>
           ret'.kind = "value" /\ ret'.readsDuring = 0
      /\ ret'.streak = 2 =>
           ret'.content = ret.content /\ ret.readsDuring = 0
    ]_vars

C4_Witness ==
  ret.streak = 2 /\ ret.kind = "value" /\ ret.readsDuring = 0
    /\ ret.content.kind = "file"

\* C5: a getContent() call that finds the cache at least cacheTimeout old
\* reads both files before it returns, and with valid files returns newly
\* read content, not the expired object.
C5_StaleCallReads ==
  ret.state = "stale" =>
    /\ ret.readsDuring = 2
    /\ ret.validDuring => (ret.kind = "value" /\ ~ret.isExpired)

\* C6: a failed load with nothing cached and a fallback configured installs
\* the fallback, initialize() resolves, and getContent() returns the
\* fallback set.
C6_FallbackOnFailedLoad ==
  [][ /\ (LoadEnds /\ ~ReadValid /\ cachedContent = NullContent
            /\ fallbackContent # NullContent) =>
           /\ cachedContent' = fallbackContent
           /\ owner.kind = "init" => initState' = "resolved"
           /\ owner.kind = "get" =>
                ret'.kind = "value" /\ ret'.content = fallbackContent
      /\ (ret' # ret /\ ret'.kind = "value" /\ fallbackContent # NullContent
            /\ cachedContent' = fallbackContent) =>
           ret'.content = fallbackContent
    ]_vars

C6_Witness ==
  /\ initState = "resolved"
  /\ lastGood = NullContent
  /\ cachedContent = defaultFallbackContent
  /\ ret.kind = "value" /\ ret.content = defaultFallbackContent

\* C7: a failed load with nothing cached and no fallback configured makes
\* initialize() / getContent() reject and leaves isContentAvailable() false;
\* whatever is cached or returned is a validated content set.
C7_RejectsWithoutFallback ==
  [][ /\ (LoadEnds /\ ~ReadValid /\ cachedContent = NullContent
            /\ fallbackContent = NullContent) =>
           /\ ~isContentAvailable'
           /\ owner.kind = "init" => initState' = "rejected"
           /\ owner.kind = "get" => ret'.kind = "throw"
      /\ ret'.kind = "value" => Validated(ret'.content)
      /\ isContentAvailable' => Validated(cachedContent')
    ]_vars

C7_Witness ==
  /\ fallbackContent = NullContent
  /\ initState = "rejected"
  /\ ~isContentAvailable
  /\ ret.kind = "throw" /\ ret.readsDuring = 2

\* C8: a burst of 'change' events, each less than DebounceDelay after the
\* previous one, leads to exactly one reloadContent call, DebounceDelay
\* after the last event of the burst.
C8_OneReloadPerBurst ==
  lastEvent >= 0 =>
    IF timers = {}
    THEN burstReloads = 1 /\ lastFireTime = lastEvent + DebounceDelay
    ELSE /\ burstReloads = 0
         /\ timers = {lastEvent + DebounceDelay}
         /\ now <= lastEvent + DebounceDelay

C8_Witness ==
  /\ burstEvents >= 2
  /\ lastEvent > burstStart
  /\ burstReloads = 1
  /\ timers = {}
  /\ lastFireTime = lastEvent + DebounceDelay

\* C9: when reloadContent calls overlapped and all have returned, the cached
\* content is what was read at or after the start of the last one.
C9_LastReloadWins ==
  (lastReload.overlapped /\ ~isLoading) => ReflectsFilesSinceReload

\* C10: with fallback content configured, a getContent() call made after
\* initialize() succeeded never throws.
C10_NeverThrowsAfterInit ==
  (ret.afterInit /\ fallbackContent # NullContent) => ret.kind = "value"

\* A list of ids without repetition.
NoDuplicates(seq) ==
  \A i, j \in 1..Len(seq) : i # j => seq[i] # seq[j]

\* A history list is the maxHistorySize most recently returned ids of its
\* type, most recent first.
IsRecentWindow(history, type) ==
  /\ Len(history) <= maxHistorySize
  /\ NoDuplicates(history)
  /\ history = Take(shownOrder[type], maxHistorySize)

\* C11 as stated: getRandomSentence / getRandomAcronym returns one of the two
\* most recently shown items of its type only when the pool it draws from
\* has fewer items than maxHistorySize.
C11_NoRecentRepeatUnlessSmaller ==
  lastPick.repeated => lastPick.pool < maxHistorySize

\* C11 amended: getRandomSentence / getRandomAcronym returns one of the two
\* most recently shown items of its type only when the pool it draws from
\* has at most maxHistorySize items.
C11_NoRecentRepeatInLargePool ==
  lastPick.repeated => lastPick.pool <= maxHistorySize

C11_Witness ==
  /\ game # "none"
  /\ lastPick.pool > maxHistorySize
  /\ ~lastPick.repeated
  /\ Len(shownOrder[TypeOf(game)]) = MaxItems

C19_PreviousReturnsToPrevious ==
  lastPrev.changed => lastPrev.to = lastPrev.before

\* C18: after Space on a game screen the timer shows its full duration and
\* is running.
C18_SpaceRestartsTimer ==
  lastOp = "Space" =>
    /\ timerState.remaining = timerState.duration
    /\ timerState.isRunning
    /\ ~timerState.isPaused

\* C20: a Timer mounted with autoStart = true is running, with the whole
\* duration remaining, once its mount effects have completed.
C20_AutoStartRuns ==
  (lastOp = "mount" /\ timerProps.autoStart) =>
    /\ timerState.isRunning
    /\ timerState.remaining = timerProps.duration

\* ---- content items ---------------------------------------------------------
UniqueIds(seq) ==
  \A i, j \in DOMAIN seq : seq[i].id = seq[j].id => i = j

\* C13: every content set the loader caches and serves has ids that are
\* unique within the sentences array and unique within the acronyms array,
\* whatever the files contain.
C13_CachedIdsUnique ==
  contentItems.loaded =>
    UniqueIds(contentItems.sentences) /\ UniqueIds(contentItems.acronyms)

SameLetter(x, y) == x = y \/ {x, y} = {"K", "k"} \/ {x, y} = {"D", "d"}

EqualIgnoringCase(a, b) ==
  Len(a) = Len(b) /\ \A i \in DOMAIN a : SameLetter(a[i], b[i])

WithCategory(category) ==
  SelectSeq(contentItems.sentences,
            LAMBDA s : EqualIgnoringCase(s.category, category))

\* C14 as stated: getSentences(category) returns exactly the cached
\* sentences whose category equals the given one ignoring letter case, in
\* their original order, for every category given; a category no sentence
\* has yields the empty array.
C14_FilterByGivenCategory ==
  (page.op = "loader.getSentences" /\ page.category # {}) =>
    page.items = WithCategory(The(page.category))

\* C14 amended: the same for every non-empty category given; the empty
\* string is treated as no category and yields every sentence.
C14_FilterByNonEmptyCategory ==
  (page.op = "loader.getSentences" /\ page.category # {}) =>
    IF The(page.category) = <<>>
    THEN page.items = contentItems.sentences
    ELSE page.items = WithCategory(The(page.category))

\* A query for "K" answered with a sentence of category "k", some sentence
\* left out.
C14_Witness ==
  /\ page.op = "loader.getSentences"
  /\ page.category = {<<"K">>}
  /\ \E i \in DOMAIN page.items : page.items[i].category = <<"k">>
  /\ Len(page.items) < Len(contentItems.sentences)

\* The list a sentence or acronym request pages through.
WholeList ==
  IF page.op \in {"service.getSentences", "GET /sentences"}
  THEN getSentences(contentItems, page.category)
  ELSE contentItems.acronyms

Min(a, b) == IF a < b THEN a ELSE b

\* Items offset .. offset+limit-1 of a list, counted from 0.
Window(list, offset, limit) ==
  [i \in 1..(Min(offset + limit, Len(list)) - Min(offset, Len(list))) |->
     list[offset + i]]

\* The pages a client collects from offset 0 while hasMore is true.
RECURSIVE PagesFrom(_, _, _)
PagesFrom(list, limit, offset) ==
  LET items == paginate(list, {limit}, {offset})
  IN IF offset + limit < Len(list)
     THEN items \o PagesFrom(list, limit, offset + limit)
     ELSE items

\* C15: for limit >= 1 and offset >= 0 the paginated answer holds items
\* offset .. offset+limit-1 of the whole filtered list, total is the size of
\* that list, the API's hasMore is true exactly when offset + limit < total,
\* and consecutive pages put together are the list, nothing twice.
C15_PagesPartitionList ==
  (/\ page.op \in {"service.getSentences", "service.getAcronyms",
                   "GET /sentences", "GET /acronyms"}
   /\ page.status = 200
   /\ page.limit # {} /\ page.offset # {}
   /\ The(page.limit) >= 1 /\ The(page.offset) >= 0) =>
    /\ page.items = Window(WholeList, The(page.offset), The(page.limit))
    /\ page.total = Len(WholeList)
    /\ page.hasMore <=> The(page.offset) + The(page.limit) < page.total
    /\ PagesFrom(WholeList, The(page.limit), 0) = WholeList

\* A middle page of the API: items before it and after it.
C15_Witness ==
  /\ page.op = "GET /sentences"
  /\ page.status = 200
  /\ The(page.offset) >= 1
  /\ Len(page.items) = The(page.limit)
  /\ page.hasMore

\* ---- database unavailability ---------------------------------------------
DbFreeOps ==
  {"initialize", "PUT /config/history", "GET /config/game",
   "GET /content/categories"}

SessionOps == {"POST /sessions", "PUT /sessions/:id", "GET /sessions/:id"}

C17_Sessions503WhenUnavailable ==
  (reply.op \in SessionOps /\ reply.unavailable) => reply.status = 503

\* ---- the Timer under its controls ---------------------------------------
\* C21: the timer prevents negative values: in every reachable Timer state
\* 0 <= remaining <= duration, for every sequence of start, pause, resume,
\* reset, restart, tick, visibility-change and duration-change events.
C21_RemainingInRange ==
  timerProps.mounted =>
    0 <= timerState.remaining /\ timerState.remaining <= timerState.duration

\* C22: when a running countdown reaches zero, onComplete is invoked exactly
\* once and the timer ends in remaining = 0, not running, not paused; it
\* stays there with no interval and no further onComplete call until Reset,
\* Restart or a duration change.
C22_CompletesOnce ==
  timerProps.mounted =>
    /\ timerHist.completions <= 1
    /\ (lastOp = "tick" /\ timerState.remaining <= 0) =>
         timerHist.completions = 1
    /\ timerHist.completions = 1 =>
         /\ timerState.remaining = 0
         /\ ~timerState.isRunning
         /\ ~timerState.isPaused
         /\ ~intervalRef

\* The countdown has reached zero and the tab was then hidden and shown.
C22_Witness ==
  /\ timerProps.mounted
  /\ timerHist.completions = 1
  /\ lastOp = "visibility"
  /\ ~hidden

\* C23: while the timer is paused, remaining does not change however much
\* time passes, and Resume continues the countdown from exactly the
\* remaining value at which it was paused.
C23_PauseKeepsRemaining ==
  timerProps.mounted =>
    /\ timerState.isPaused =>
         timerState.remaining = timerHist.pausedAt /\ ~intervalRef
    /\ lastOp = "resume" =>
         /\ timerState.remaining = timerHist.pausedAt
         /\ ~timerState.isPaused
         /\ intervalRef <=> timerState.remaining > 0

\* Resume after a pause in the middle of a countdown.
C23_Witness ==
  /\ timerProps.mounted
  /\ lastOp = "resume"
  /\ intervalRef
  /\ timerState.remaining < timerState.duration

\* C24: a running, unpaused timer becomes paused when the tab becomes hidden
\* and does not count down while hidden; it resumes counting from the same
\* remaining value when the tab becomes visible again.
C24_HiddenTabPauses ==
  (timerProps.mounted /\ timerHist.byHiding) =>
    /\ timerState.isRunning
    /\ timerState.remaining = timerHist.pausedAt
    /\ IF hidden
       THEN timerState.isPaused /\ ~intervalRef
       ELSE ~timerState.isPaused /\ (intervalRef <=> timerState.remaining > 0)

\* The tab is visible again and the countdown goes on in its middle.
C24_Witness ==
  /\ timerProps.mounted
  /\ timerHist.byHiding
  /\ ~hidden
  /\ intervalRef
  /\ timerState.remaining < timerState.duration

\* C26: a timer paused with the Pause button stays paused until Resume,
\* Reset or Restart is pressed or the duration changes: no sequence of tab
\* hidden / visible events makes it count down again.
C26_UserPauseStays ==
  (timerProps.mounted /\ timerHist.byUser) =>
    timerState.isPaused /\ ~intervalRef

\* C27: in every reachable Timer state isPaused implies isRunning.
C27_PausedImpliesRunning ==
  (timerProps.mounted /\ timerState.isPaused) => timerState.isRunning

\* The timer is paused and the duration is about to change under it.
C27_Witness ==
  /\ timerProps.mounted
  /\ timerState.isPaused
  /\ timerState.isRunning
  /\ timerState.remaining < timerState.duration

\* ---- content fetches that fail --------------------------------------------
\* C25: when a content fetch fails while previously cached sentences or
\* acronyms exist, the cached content is left unchanged and the game screen
\* keeps presenting items from it instead of the error screen.
C25_FailedFetchKeepsGame ==
  (game # "none" /\ fetchEnd.failed /\ fetchEnd.hadCache) =>
    /\ state.sentences = cachedItems.sentences
    /\ state.acronyms = cachedItems.acronyms
    /\ OnGameScreen
    /\ timerProps.mounted

\* C28: when the content API keeps failing while the browser is online, the
\* hook settles with isLoading = false and error set and issues no further
\* fetch until the user asks for one or connectivity changes.
C28_SettlesAfterFailure ==
  (game # "none" /\ fetchEnd.failed) =>
    ~state.isLoading /\ error /\ ~fetchEnd.refetched

\* C29: once cleanup() has returned, the debounce timer of handleFileChange
\* starts no reload: no timer fires later than the cleanup, and a load the
\* timer owns was begun before it.
C29_NoReloadAfterCleanup ==
  cleanedUp.done =>
    /\ lastFireTime <= cleanedUp.at
    /\ (owner.kind = "timer" => loadSeq <= cleanedUp.loads)

====
